---- MODULE Spec2Model ----
(***************************************************************************)
(* Publishing pipeline (upload -> create batch -> import), the batch       *)
(* orchestrators, the Drive folder crawl and the JSON flattener of         *)
(* Preprocessing_automation.                                               *)
(*                                                                         *)
(*   interactive flow : src/app.py  upload_pipeline and the bulk upload    *)
(*                      loop of the split path                             *)
(*   unattended flow  : src/test.py main and its three stage functions     *)
(*   folder crawl     : src/app.py  build_drive_dataframe and              *)
(*                      list_drive_images_recursive                        *)
(*   JSON flattener   : src/app.py  build_json_dataframe, _flatten_leaves  *)
(*                                                                         *)
(* Strings the code computes on (the token) are sequences of one-character *)
(* strings; strings the code only passes around are TLA+ strings.          *)
(***************************************************************************)
EXTENDS Integers, Sequences, FiniteSets, TLC

VARIABLES
    flow,       \* "interactive" (app.py) or "unattended" (test.py)
    answers,    \* the server's repertoire: "all" answers, or a "few" per stage
    token,      \* the TOKEN text input (app.py) / the TOKEN constant (test.py)
    listing,    \* the group keys (app.py) / os.listdir(CSV_FOLDER) (test.py)
    files,      \* targets (app.py:878) / sorted(all_files) (test.py:69)
    idx,        \* position of the loop in files, 1-based
    pc,         \* where the orchestrator is
    sends,      \* requests put on the wire by the call in flight
    tries,      \* what the wire answered to each of them (status 0: no response)
    calls,      \* the stage calls of the current pipeline run, in order
    file_link,  \* RemoteObjectRef of the current run
    object_name,
    batch_id,   \* the value create_batch_rlhf returned in the current run
    ret,        \* (ok, msg) returned by upload_pipeline (app.py)
    log_entry,  \* log_entry of the current file (test.py)
    successes,  \* app.py:882
    failures,   \* app.py:882
    errors,     \* the st.error messages shown so far (app.py:892)
    log_data,   \* test.py:68
    persisted,  \* content of LOG_FILE on disk (test.py:102-103)
    hist,       \* history: per finished run, the file and the stage it ended in
    drive,      \* the items of the Drive folder tree under the scanned folder
    scan,       \* where build_drive_dataframe is
    stack,      \* the frames of list_drive_images_recursive, innermost last
    results,    \* the results list the frames share (app.py:271)
    image_data, \* app.py:307
    drive_df,   \* what build_drive_dataframe returned
    exhausted,  \* history: a page failed on every one of its attempts
    retried,    \* history: a page failed and was fetched again
    data,       \* the uploaded JSON document (app.py:357)
    df_json,    \* the rows build_json_dataframe returned
    parsed      \* build_json_dataframe has run

pipeline_vars ==
    << flow, answers, token, listing, files, idx, pc, sends, tries, calls, file_link,
       object_name, batch_id, ret, log_entry, successes, failures, errors,
       log_data, persisted, hist >>

scan_vars ==
    << drive, scan, stack, results, image_data, drive_df, exhausted, retried >>

json_vars == << data, df_json, parsed >>

vars == << pipeline_vars, scan_vars, json_vars >>

----------------------------------------------------------------------------
(* Bounds of the model *)

\* most files of a batch whose server gives "all" answers
DetailFiles == 1

\* most files of a batch whose server gives a "few" answers per stage
MaxFiles == 3

----------------------------------------------------------------------------
(* Program constants *)

DEFAULT_TOTAL_RETRIES == 4

\* _format_http_error keeps body[:2000]
BodyLimit == 2000

\* requests.post without a session mounts HTTPAdapter(max_retries=0)
PlainPostRetries == 0

status_forcelist == {429, 500, 502, 503, 504}

UPLOAD_URL == << "https://labeling-m.turing.com", "api", "batches", "upload", "rlhf-metadata" >>

API_BASE == << "https://labeling-m.turing.com", "api", "batches" >>

None == [t |-> "null", v |-> "None"]

----------------------------------------------------------------------------
(* Character strings: str.strip, str.lower, str.startswith *)

IsSpace(c) == c \in {" ", "\t"}

LowerChar(c) ==
    CASE c = "B" -> "b"
      [] c = "E" -> "e"
      [] c = "A" -> "a"
      [] c = "R" -> "r"
      [] OTHER   -> c

Lower(s) == [i \in 1..Len(s) |-> LowerChar(s[i])]

RECURSIVE LStrip(_)
LStrip(s) == IF s # << >> /\ IsSpace(Head(s)) THEN LStrip(Tail(s)) ELSE s

RECURSIVE RStrip(_)
RStrip(s) ==
    IF s # << >> /\ IsSpace(s[Len(s)]) THEN RStrip(SubSeq(s, 1, Len(s) - 1)) ELSE s

Strip(s) == RStrip(LStrip(s))

StartsWith(s, p) == Len(s) >= Len(p) /\ SubSeq(s, 1, Len(p)) = p

BearerSp == << "B", "e", "a", "r", "e", "r", " " >>

bearer_sp == << "b", "e", "a", "r", "e", "r", " " >>

NoHeaders == [k \in {} |-> << >>]

\* mutant: the prefix test without .lower()
_auth_headers_case_sensitive(tok) ==
    LET t1 == Strip(tok)
        t2 == IF t1 # << >> /\ ~StartsWith(t1, BearerSp)
              THEN BearerSp \o t1 ELSE t1
    IN  IF t2 # << >> THEN [Authorization |-> t2] ELSE NoHeaders

\* app.py:73-77
_auth_headers(tok) ==
    LET t1 == Strip(tok)
        t2 == IF t1 # << >> /\ ~StartsWith(Lower(t1), bearer_sp)
              THEN BearerSp \o t1 ELSE t1
    IN  IF t2 # << >> THEN [Authorization |-> t2] ELSE NoHeaders

\* app.py:79-82
_json_headers(tok) ==
    [ContentType |-> << "application/json" >>] @@ _auth_headers(tok)

\* test.py:9 : the TOKEN constant is "Bearer " followed by a JWT
TOKEN == BearerSp \o << "x" >>

\* test.py:15
AUTH_HEADERS == [Authorization |-> TOKEN]

\* test.py:16
JSON_HEADERS == [Authorization |-> TOKEN, ContentType |-> << "application/json" >>]

----------------------------------------------------------------------------
(* JSON values and HTTP responses *)

JInt(s) == [t |-> "int", v |-> s]

JStr(s) == [t |-> "str", v |-> s]

\* f"{value}" of a JSON scalar: None prints as "None"
Format(j) == j.v

\* bool(value) of a JSON scalar or of an absent field
Truthy(j) == j.t # "null" /\ j.v # ""

NoFields == [k \in {} |-> None]

\* resp.text by its length and by what json.loads makes of it
EmptyBody == [kind |-> "empty", shape |-> "", fields |-> NoFields, len |-> 0]

BlankBody == [kind |-> "blank", shape |-> "", fields |-> NoFields, len |-> 2]

HtmlBody == [kind |-> "text", shape |-> "", fields |-> NoFields, len |-> BodyLimit + 1]

ArrayBody == [kind |-> "json", shape |-> "array", fields |-> NoFields, len |-> 2]

ObjectBody(f) == [kind |-> "json", shape |-> "object", fields |-> f, len |-> 40]

Link1 == "https://storage.googleapis.com/rlhf-batch-uploads/batch%201.csv"

\* link.rsplit("/", 1)[-1]
LastSegment(link) ==
    CASE link = Link1 -> "batch%201.csv"
      [] OTHER        -> link

\* urllib.parse.unquote
unquote(seg) ==
    CASE seg = "batch%201.csv" -> "batch 1.csv"
      [] OTHER                 -> seg

ServerHeaders == "Content-Type, Date"

Wire(st, body) == [exc |-> FALSE, status |-> st, headers |-> ServerHeaders, body |-> body]

\* the connection or the read failed: no response
WireError == [exc |-> TRUE, status |-> 0, headers |-> "", body |-> EmptyBody]

\* a response that carries a Retry-After header
RetryAfterHeaders == "Content-Type, Date, Retry-After"

RetryAfterWire ==
    [exc |-> FALSE, status |-> 413, headers |-> RetryAfterHeaders, body |-> HtmlBody]

\* what the server may answer to a request of each stage
ErrorWire == { Wire(404, HtmlBody), Wire(500, HtmlBody), WireError }

UploadWire ==
    { Wire(200, ObjectBody([fileLink |-> JStr(Link1)])),
      Wire(200, ObjectBody([fileLink |-> JStr("")])),
      Wire(200, ObjectBody([message |-> JStr("stored")])),
      Wire(200, ArrayBody),
      Wire(200, HtmlBody),
      Wire(300, ObjectBody([fileLink |-> JStr(Link1)])),
      RetryAfterWire } \cup ErrorWire

RegisterWire ==
    { Wire(200, ObjectBody([id |-> JInt("7")])),
      Wire(200, ObjectBody([id |-> None])),
      Wire(200, ObjectBody([id |-> JStr("seven")])),
      Wire(200, ObjectBody([message |-> JStr("created")])),
      Wire(200, HtmlBody),
      RetryAfterWire } \cup ErrorWire

ImportWire ==
    { Wire(200, EmptyBody),
      Wire(200, BlankBody),
      Wire(200, ObjectBody([message |-> JStr("imported")])),
      Wire(200, HtmlBody),
      Wire(304, EmptyBody),
      RetryAfterWire } \cup ErrorWire

\* one success, one fatal status, one transient status and a dead connection
FewUploadWire == { Wire(200, ObjectBody([fileLink |-> JStr(Link1)])) } \cup ErrorWire

FewRegisterWire == { Wire(200, ObjectBody([id |-> JInt("7")])) } \cup ErrorWire

FewImportWire == { Wire(200, EmptyBody) } \cup ErrorWire

\* requests.Response.ok: raise_for_status raises on 400..599 only
Ok(resp) == ~(resp.status >= 400 /\ resp.status < 600)

IsJson(resp) == resp.body.kind = "json"

HasField(resp, k) ==
    IsJson(resp) /\ resp.body.shape = "object" /\ k \in DOMAIN resp.body.fields

\* resp.text.strip() is non-empty
HasText(resp) == resp.body.kind \notin {"empty", "blank"}

Min(a, b) == IF a <= b THEN a ELSE b

----------------------------------------------------------------------------
(* The stage functions of the interactive flow (src/app.py) *)

NoDiag == [none |-> TRUE]

NoPayload == [none |-> TRUE]

NoBatch == [none |-> TRUE]

\* the text of an exception, or of the success message, by its parts
Msg(text, http, payload, batch) ==
    [text |-> text, http |-> http, payload |-> payload, batch |-> batch]

Return(v) == [raised |-> FALSE, exc |-> NoDiag, value |-> v]

Raise(e) == [raised |-> TRUE, exc |-> e, value |-> None]

\* session.post / requests.post hands back the wire's answer with its request
Response(w, url) ==
    [exc |-> w.exc, status |-> w.status, headers |-> w.headers, body |-> w.body,
     method |-> "POST", url |-> url]

\* body[:2000]
Excerpt(body) == [body EXCEPT !.len = Min(@, BodyLimit)]

\* mutant: the whole body instead of body[:2000]
_format_http_error_whole_body(resp) ==
    [status |-> resp.status, method |-> resp.method, url |-> resp.url,
     headers |-> resp.headers, body |-> resp.body]

\* app.py:84-92
_format_http_error(resp) ==
    [status |-> resp.status, method |-> resp.method, url |-> resp.url,
     headers |-> resp.headers, body |-> Excerpt(resp.body)]

\* requests.exceptions.ConnectionError raised by session.post after the retries
TransportExc == Msg("Max retries exceeded with url", NoDiag, NoPayload, NoBatch)

\* mutant: "if link is None" instead of "if not link"
upload_csv_bytes_none_only(resp) ==
    IF resp.exc THEN Raise(TransportExc)
    ELSE IF ~Ok(resp)
    THEN Raise(Msg("Upload step failed:", _format_http_error(resp), NoPayload, NoBatch))
    ELSE IF ~IsJson(resp)
    THEN Raise(Msg("Upload step returned non-JSON:", _format_http_error(resp),
                   NoPayload, NoBatch))
    ELSE IF resp.body.shape # "object"
    THEN Raise(Msg("'list' object has no attribute 'get'", NoDiag, NoPayload, NoBatch))
    ELSE LET payload == resp.body.fields
             link == IF "fileLink" \in DOMAIN payload THEN payload.fileLink ELSE None
         IN  IF link.t = "null"
             THEN Raise(Msg("Upload step missing 'fileLink' in response:", NoDiag,
                            payload, NoBatch))
             ELSE Return([link |-> link.v,
                          object_name |-> unquote(LastSegment(link.v))])

\* app.py:109-124, resp the outcome of session.post
upload_csv_bytes(resp) ==
    IF resp.exc THEN Raise(TransportExc)
    ELSE IF ~Ok(resp)
    THEN Raise(Msg("Upload step failed:", _format_http_error(resp), NoPayload, NoBatch))
    ELSE IF ~IsJson(resp)
    THEN Raise(Msg("Upload step returned non-JSON:", _format_http_error(resp),
                   NoPayload, NoBatch))
    ELSE IF resp.body.shape # "object"
    THEN Raise(Msg("'list' object has no attribute 'get'", NoDiag, NoPayload, NoBatch))
    ELSE LET payload == resp.body.fields
             link == IF "fileLink" \in DOMAIN payload THEN payload.fileLink ELSE None
         IN  IF ~Truthy(link)
             THEN Raise(Msg("Upload step missing 'fileLink' in response:", NoDiag,
                            payload, NoBatch))
             ELSE Return([link |-> link.v,
                          object_name |-> unquote(LastSegment(link.v))])

\* mutant: Retry(raise_on_status=True): exhausted status retries raise
create_batch_rlhf_raising(resp) ==
    IF resp.exc \/ resp.status \in status_forcelist THEN Raise(TransportExc)
    ELSE IF ~Ok(resp)
    THEN Raise(Msg("Create-batch step failed:", _format_http_error(resp),
                   NoPayload, NoBatch))
    ELSE IF HasField(resp, "id")
    THEN Return(resp.body.fields.id)
    ELSE Raise(Msg("Create-batch returned invalid JSON:", _format_http_error(resp),
                   NoPayload, NoBatch))

\* app.py:150-157
create_batch_rlhf(resp) ==
    IF resp.exc THEN Raise(TransportExc)
    ELSE IF ~Ok(resp)
    THEN Raise(Msg("Create-batch step failed:", _format_http_error(resp),
                   NoPayload, NoBatch))
    ELSE IF HasField(resp, "id")
    THEN Return(resp.body.fields.id)
    ELSE Raise(Msg("Create-batch returned invalid JSON:", _format_http_error(resp),
                   NoPayload, NoBatch))

\* mutant: resp.json() whatever the body
import_batch_always_json(resp) ==
    IF resp.exc THEN Raise(TransportExc)
    ELSE IF ~Ok(resp)
    THEN Raise(Msg("Import step failed:", _format_http_error(resp), NoPayload, NoBatch))
    ELSE IF IsJson(resp) THEN Return(None)
    ELSE Raise(Msg("Expecting value: line 1 column 1 (char 0)", NoDiag, NoPayload,
                   NoBatch))

\* app.py:164-169
import_batch(resp) ==
    IF resp.exc THEN Raise(TransportExc)
    ELSE IF ~Ok(resp)
    THEN Raise(Msg("Import step failed:", _format_http_error(resp), NoPayload, NoBatch))
    ELSE IF ~HasText(resp) THEN Return(None)
    ELSE IF IsJson(resp) THEN Return(None)
    ELSE Raise(Msg("Expecting value: line 1 column 1 (char 0)", NoDiag, NoPayload,
                   NoBatch))

\* app.py:164 and test.py:49
ImportUrl(id) == API_BASE \o << Format(id), "import-rlhf" >>

\* app.py:192
SuccessRet(id) ==
    [ok |-> TRUE, msg |-> Msg("Uploaded and imported. Batch ID:", NoDiag, NoPayload,
                              Format(id))]

\* app.py:193-194
FailRet(e) == [ok |-> FALSE, msg |-> e]

----------------------------------------------------------------------------
(* The stage functions of the unattended flow (src/test.py) *)

NoResp == [none |-> TRUE]

Exc2(type, resp) == [type |-> type, response |-> resp]

\* test.py:21-25
upload_csv(resp) ==
    IF resp.exc THEN Raise(Exc2("ConnectionError", NoResp))
    ELSE IF ~Ok(resp) THEN Raise(Exc2("HTTPError", resp))
    ELSE IF ~IsJson(resp) THEN Raise(Exc2("JSONDecodeError", NoResp))
    ELSE IF resp.body.shape # "object" THEN Raise(Exc2("TypeError", NoResp))
    ELSE IF "fileLink" \notin DOMAIN resp.body.fields
    THEN Raise(Exc2("KeyError", NoResp))
    ELSE LET link == resp.body.fields.fileLink
         IN  IF link.t # "str" THEN Raise(Exc2("AttributeError", NoResp))
             ELSE Return([link |-> link.v,
                          object_name |-> unquote(LastSegment(link.v))])

\* test.py:45-47
main_create_batch_rlhf(resp) ==
    IF resp.exc THEN Raise(Exc2("ConnectionError", NoResp))
    ELSE IF ~Ok(resp) THEN Raise(Exc2("HTTPError", resp))
    ELSE IF ~IsJson(resp) THEN Raise(Exc2("JSONDecodeError", NoResp))
    ELSE IF resp.body.shape # "object" THEN Raise(Exc2("TypeError", NoResp))
    ELSE IF "id" \notin DOMAIN resp.body.fields THEN Raise(Exc2("KeyError", NoResp))
    ELSE Return(resp.body.fields.id)

\* test.py:51-60
main_import_batch(resp) ==
    IF resp.exc THEN Raise(Exc2("ConnectionError", NoResp))
    ELSE IF ~Ok(resp) THEN Raise(Exc2("HTTPError", resp))
    ELSE IF ~HasText(resp) THEN Return(None)
    ELSE IF IsJson(resp) THEN Return(None)
    ELSE Raise(Exc2("JSONDecodeError", NoResp))

\* test.py:86-100: the error text main stores in the log entry
ErrorText(e) ==
    IF e.type = "HTTPError"
    THEN [text |-> e.type, status |-> e.response.status, url |-> e.response.url,
          headers |-> e.response.headers, body |-> e.response.body]
    ELSE [text |-> e.type, status |-> 0, url |-> << >>, headers |-> "",
          body |-> EmptyBody]

----------------------------------------------------------------------------
(* Files *)

Interactive == flow = "interactive"

\* f.lower() of an extension
LowerExt(e) == IF e \in {"CSV", "Csv"} THEN "csv" ELSE e

\* the k-th file of a batch: output_<field>_<group>.csv built at app.py:885, or
\* a file of CSV_FOLDER, whose names differ in more than letter case
FileNamed(fl, k) ==
    [stem |-> k,
     ext  |-> IF fl = "interactive" \/ k % 2 = 1 THEN "csv" ELSE "CSV"]

OtherFile == [stem |-> 0, ext |-> "txt"]

\* test.py:63
IsCsv(f) == LowerExt(f.ext) = "csv"

\* sorted(...) at test.py:69; the key order of groups at app.py:878
RECURSIVE Sorted(_)
Sorted(S) ==
    IF S = {} THEN << >>
    ELSE LET m == CHOOSE x \in S : \A y \in S : x.stem <= y.stem
         IN  << m >> \o Sorted(S \ {m})

\* os.path.splitext(csv_file)[0] at test.py:70, filename.rsplit(".", 1)[0] at app.py:183
Prefix(f) == f.stem

----------------------------------------------------------------------------
(* State *)

NoRet == [none |-> TRUE]

NoEntry == [none |-> TRUE]

EmptyLog == [k \in {} |-> NoEntry]

NewCall(step, url, headers, arg) ==
    [step |-> step, method |-> "POST", url |-> url, headers |-> headers,
     arg |-> arg, state |-> "inflight", resp |-> NoResp]

NoData == [none |-> TRUE]

NoTable == [none |-> TRUE]

\* no folder is scanned
ScanOff ==
    /\ drive = {}
    /\ scan = "idle"
    /\ stack = << >>
    /\ results = << >>
    /\ image_data = NoData
    /\ drive_df = NoTable
    /\ exhausted = FALSE
    /\ retried = FALSE

\* no JSON document is loaded
JsonOff ==
    /\ data = NoData
    /\ df_json = NoTable
    /\ parsed = FALSE

InitWith(Tokens, Sizes, repertoire) ==
    /\ flow \in {"interactive", "unattended"}
    /\ answers = repertoire
    /\ token \in (IF flow = "interactive" THEN Tokens ELSE {TOKEN})
    /\ \E n \in Sizes :
         listing = {FileNamed(flow, k) : k \in 1..n}
                     \cup (IF flow = "interactive" THEN {} ELSE {OtherFile})
    /\ files = << >>
    /\ idx = 0
    /\ pc = "idle"
    /\ sends = 0
    /\ tries = << >>
    /\ calls = << >>
    /\ file_link = ""
    /\ object_name = ""
    /\ batch_id = None
    /\ ret = NoRet
    /\ log_entry = NoEntry
    /\ successes = 0
    /\ failures = 0
    /\ errors = << >>
    /\ log_data = EmptyLog
    /\ persisted = EmptyLog
    /\ hist = << >>

\* what an operator may type into the TOKEN field
RawToken == << "x" >>

MainTokens == { RawToken, BearerSp \o RawToken }

Tokens ==
    MainTokens \cup
    { << >>,
      << " " >>,
      << " " >> \o RawToken \o << " " >>,
      << " " >> \o BearerSp \o RawToken \o << " " >>,
      bearer_sp \o RawToken,
      << "B", "E", "A", "R", "E", "R", " " >> \o RawToken,
      << "B", "e", "a", "r", "e", "r" >>,
      << "B", "e", "a", "r", "e", "r", "\t" >> \o RawToken,
      BearerSp \o BearerSp \o RawToken }

\* no batch is uploaded
PipelineOff == flow = "interactive" /\ InitWith({RawToken}, {0}, "few")

Init == InitWith(MainTokens, 0..DetailFiles, "all") /\ ScanOff /\ JsonOff

InitAuth == InitWith(Tokens, 0..DetailFiles, "few") /\ ScanOff /\ JsonOff

InitBatch == InitWith({RawToken}, 0..MaxFiles, "few") /\ ScanOff /\ JsonOff

----------------------------------------------------------------------------
(* The orchestrators: app.py:874-895 and test.py:61-106 *)

\* app.py:875-882 ; test.py:63-69
Launch ==
    /\ pc = "idle"
    /\ LET todo == IF Interactive THEN Sorted(listing)
                   ELSE Sorted({f \in listing : IsCsv(f)})
           refused == Interactive /\ token = << >>
       IN  /\ files' = IF refused THEN << >> ELSE todo
           /\ idx' = 1
           /\ pc' = IF refused \/ todo = << >> THEN "finished" ELSE "start"
    /\ UNCHANGED << scan_vars, json_vars >>
    /\ UNCHANGED << flow, answers, token, listing, sends, tries, calls, file_link, object_name,
                    batch_id, ret, log_entry, successes, failures, errors,
                    log_data, persisted, hist >>

\* app.py:177-180 and 104-109 ; test.py:70-75 and 18-21
BeginRun ==
    /\ pc = "start"
    /\ calls' = << NewCall("upload", UPLOAD_URL,
                           IF Interactive THEN _auth_headers(token) ELSE AUTH_HEADERS,
                           [file |-> files[idx]]) >>
    /\ sends' = 1
    /\ tries' = << >>
    /\ file_link' = ""
    /\ object_name' = ""
    /\ batch_id' = None
    /\ ret' = NoRet
    /\ log_entry' = IF Interactive THEN NoEntry
                    ELSE [file |-> files[idx], status |-> "pending",
                          batch_id |-> None, error |-> None]
    /\ pc' = "upload"
    /\ UNCHANGED << scan_vars, json_vars >>
    /\ UNCHANGED << flow, answers, token, listing, files, idx, successes, failures, errors,
                    log_data, persisted, hist >>

\* Retry(total=4, status_forcelist, raise_on_status=False) at app.py:53-62
MaxRetries == IF Interactive THEN DEFAULT_TOTAL_RETRIES ELSE PlainPostRetries

\* Retry.RETRY_AFTER_STATUS_CODES: make_session leaves respect_retry_after_header
\* at its default, so these statuses are retried when Retry-After is present
RETRY_AFTER_STATUS_CODES == {413, 429, 503}

HasRetryAfter(w) == w.headers = RetryAfterHeaders

\* what is kept of an answer in the history of the call
Answer(w) == [status |-> w.status, retry_after |-> HasRetryAfter(w)]

\* mutant: every error status is sent again
ResendAnyError(w) == sends <= MaxRetries /\ (w.exc \/ w.status >= 400)

\* Retry.is_retry and Retry.increment under the settings of app.py:53-62; a plain
\* requests.post (test.py:21) never sends again
Resend(w) ==
    /\ sends <= MaxRetries
    /\ \/ w.exc
       \/ w.status \in status_forcelist
       \/ HasRetryAfter(w) /\ w.status \in RETRY_AFTER_STATUS_CODES

\* the call in flight ends
Ended(state, resp) ==
    [calls EXCEPT ![Len(calls)] =
        [@ EXCEPT !.state = state, !.resp = resp]]

\* the request of the stage that follows the one in flight
NextCall ==
    IF pc = "upload"
    THEN NewCall("register", API_BASE,
                 IF Interactive THEN _json_headers(token) ELSE JSON_HEADERS,
                 [name |-> Prefix(files[idx]), folder |-> "",
                  sourceFiles |-> << "" >>])
    ELSE NewCall("import", ImportUrl(batch_id),
                 IF Interactive THEN _auth_headers(token) ELSE AUTH_HEADERS,
                 [batch |-> batch_id])

\* mutant: the exception of a stage is swallowed and the run goes on
FailedGoesOn(e, resp) ==
    /\ calls' = IF pc = "import" THEN Ended("raised", resp)
                ELSE Append(Ended("raised", resp), NextCall)
    /\ ret' = IF Interactive /\ pc = "import" THEN FailRet(e) ELSE ret
    /\ log_entry' = IF Interactive \/ pc # "import" THEN log_entry
                    ELSE [log_entry EXCEPT !.status = "failed", !.error = ErrorText(e)]
    /\ sends' = IF pc = "import" THEN 0 ELSE 1
    /\ tries' = IF pc = "import" THEN Append(tries, Answer(resp)) ELSE << >>
    /\ pc' = CASE pc = "upload" -> "register"
              [] pc = "register" -> "import"
              [] OTHER -> "returned"
    /\ UNCHANGED << file_link, object_name, batch_id >>

\* mutant: a failed stage is run again by the pipeline
FailedRunsAgain(e, resp) ==
    /\ calls' = IF Len(calls) >= 4 THEN Ended("raised", resp)
                ELSE Append(Ended("raised", resp),
                            [calls[Len(calls)] EXCEPT !.state = "inflight"])
    /\ ret' = IF Interactive /\ Len(calls) >= 4 THEN FailRet(e) ELSE ret
    /\ log_entry' = IF Interactive \/ Len(calls) < 4 THEN log_entry
                    ELSE [log_entry EXCEPT !.status = "failed", !.error = ErrorText(e)]
    /\ sends' = IF Len(calls) >= 4 THEN 0 ELSE 1
    /\ tries' = IF Len(calls) >= 4 THEN Append(tries, Answer(resp)) ELSE << >>
    /\ pc' = IF Len(calls) >= 4 THEN "returned" ELSE pc
    /\ UNCHANGED << file_link, object_name, batch_id >>

\* mutant: the exception of a stage leaves upload_pipeline and ends the batch
FailedEscapes(e, resp) ==
    /\ calls' = Ended("raised", resp)
    /\ ret' = ret
    /\ log_entry' = IF Interactive THEN log_entry
                    ELSE [log_entry EXCEPT !.status = "failed", !.error = ErrorText(e)]
    /\ sends' = 0
    /\ tries' = Append(tries, Answer(resp))
    /\ pc' = IF Interactive THEN "finished" ELSE "returned"
    /\ UNCHANGED << file_link, object_name, batch_id >>

\* app.py:193-194 ; test.py:86-100
Failed(e, resp) ==
    /\ calls' = Ended("raised", resp)
    /\ ret' = IF Interactive THEN FailRet(e) ELSE ret
    /\ log_entry' = IF Interactive THEN log_entry
                    ELSE [log_entry EXCEPT !.status = "failed", !.error = ErrorText(e)]
    /\ sends' = 0
    /\ tries' = Append(tries, Answer(resp))
    /\ pc' = "returned"
    /\ UNCHANGED << file_link, object_name, batch_id >>

\* app.py:180-186 and 132-151 ; test.py:75-79 and 27-45
UploadReply ==
    /\ pc = "upload"
    /\ \E w \in (IF answers = "all" THEN UploadWire ELSE FewUploadWire) :
         IF Resend(w)
         THEN /\ sends' = sends + 1
              /\ tries' = Append(tries, Answer(w))
              /\ UNCHANGED << calls, file_link, object_name, batch_id, ret,
                              log_entry, pc >>
         ELSE LET resp == Response(w, UPLOAD_URL)
                  r == IF Interactive THEN upload_csv_bytes(resp) ELSE upload_csv(resp)
              IN  IF r.raised THEN Failed(r.exc, resp)
                  ELSE /\ file_link' = r.value.link
                       /\ object_name' = r.value.object_name
                       /\ calls' = Append(Ended("returned", resp),
                              NewCall("register", API_BASE,
                                      IF Interactive THEN _json_headers(token)
                                      ELSE JSON_HEADERS,
                                      [name |-> Prefix(files[idx]),
                                       folder |-> r.value.link,
                                       sourceFiles |-> << r.value.object_name >>]))
                       /\ sends' = 1
                       /\ tries' = << >>
                       /\ pc' = "register"
                       /\ UNCHANGED << batch_id, ret, log_entry >>
    /\ UNCHANGED << scan_vars, json_vars >>
    /\ UNCHANGED << flow, answers, token, listing, files, idx, successes, failures, errors,
                    log_data, persisted, hist >>

\* app.py:184-189 and 164-166 ; test.py:79-83 and 49-51
RegisterReply ==
    /\ pc = "register"
    /\ \E w \in (IF answers = "all" THEN RegisterWire ELSE FewRegisterWire) :
         IF Resend(w)
         THEN /\ sends' = sends + 1
              /\ tries' = Append(tries, Answer(w))
              /\ UNCHANGED << calls, file_link, object_name, batch_id, ret,
                              log_entry, pc >>
         ELSE LET resp == Response(w, API_BASE)
                  r == IF Interactive THEN create_batch_rlhf(resp)
                       ELSE main_create_batch_rlhf(resp)
              IN  IF r.raised THEN Failed(r.exc, resp)
                  ELSE /\ batch_id' = r.value
                       /\ log_entry' = IF Interactive THEN log_entry
                                       ELSE [log_entry EXCEPT !.batch_id = r.value]
                       /\ calls' = Append(Ended("returned", resp),
                              NewCall("import", ImportUrl(r.value),
                                      IF Interactive THEN _auth_headers(token)
                                      ELSE AUTH_HEADERS,
                                      [batch |-> r.value]))
                       /\ sends' = 1
                       /\ tries' = << >>
                       /\ pc' = "import"
                       /\ UNCHANGED << file_link, object_name, ret >>
    /\ UNCHANGED << scan_vars, json_vars >>
    /\ UNCHANGED << flow, answers, token, listing, files, idx, successes, failures, errors,
                    log_data, persisted, hist >>

\* app.py:189-192 ; test.py:83-85
ImportReply ==
    /\ pc = "import"
    /\ \E w \in (IF answers = "all" THEN ImportWire ELSE FewImportWire) :
         IF Resend(w)
         THEN /\ sends' = sends + 1
              /\ tries' = Append(tries, Answer(w))
              /\ UNCHANGED << calls, file_link, object_name, batch_id, ret,
                              log_entry, pc >>
         ELSE LET resp == Response(w, ImportUrl(batch_id))
                  r == IF Interactive THEN import_batch(resp)
                       ELSE main_import_batch(resp)
              IN  IF r.raised THEN Failed(r.exc, resp)
                  ELSE /\ calls' = Ended("returned", resp)
                       /\ ret' = IF Interactive THEN SuccessRet(batch_id) ELSE ret
                       /\ log_entry' = IF Interactive THEN log_entry
                                       ELSE [log_entry EXCEPT !.status = "imported"]
                       /\ sends' = 0
                       /\ tries' = Append(tries, Answer(resp))
                       /\ pc' = "returned"
                       /\ UNCHANGED << file_link, object_name, batch_id >>
    /\ UNCHANGED << scan_vars, json_vars >>
    /\ UNCHANGED << flow, answers, token, listing, files, idx, successes, failures, errors,
                    log_data, persisted, hist >>

\* every stage call of the run returned
RunSucceeded ==
    /\ Len(calls) = 3
    /\ \A k \in 1..3 : calls[k].state = "returned"

\* log_data[prefix] = log_entry
Put(log, key, entry) ==
    [k \in DOMAIN log \cup {key} |-> IF k = key THEN entry ELSE log[k]]

\* mutant: the batch stops at the first failed file
RecordAborts ==
    /\ pc = "returned"
    /\ IF Interactive
       THEN /\ successes' = IF ret.ok THEN successes + 1 ELSE successes
            /\ failures' = IF ret.ok THEN failures ELSE failures + 1
            /\ errors' = IF ret.ok THEN errors
                         ELSE Append(errors, [file |-> files[idx], msg |-> ret.msg])
            /\ UNCHANGED << log_data, persisted >>
       ELSE /\ log_data' = Put(log_data, Prefix(files[idx]), log_entry)
            /\ persisted' = log_data'
            /\ UNCHANGED << successes, failures, errors >>
    /\ hist' = Append(hist, [file |-> files[idx], ok |-> RunSucceeded])
    /\ idx' = idx + 1
    /\ pc' = IF idx < Len(files) /\ RunSucceeded THEN "start" ELSE "finished"
    /\ UNCHANGED << scan_vars, json_vars >>
    /\ UNCHANGED << flow, answers, token, listing, files, sends, tries, calls, file_link,
                    object_name, batch_id, ret, log_entry >>

\* mutant: the log file is written before the entry is put
RecordWritesBefore ==
    /\ pc = "returned"
    /\ IF Interactive
       THEN /\ successes' = IF ret.ok THEN successes + 1 ELSE successes
            /\ failures' = IF ret.ok THEN failures ELSE failures + 1
            /\ errors' = IF ret.ok THEN errors
                         ELSE Append(errors, [file |-> files[idx], msg |-> ret.msg])
            /\ UNCHANGED << log_data, persisted >>
       ELSE /\ log_data' = Put(log_data, Prefix(files[idx]), log_entry)
            /\ persisted' = log_data
            /\ UNCHANGED << successes, failures, errors >>
    /\ hist' = Append(hist, [file |-> files[idx], ok |-> RunSucceeded])
    /\ idx' = idx + 1
    /\ pc' = IF idx < Len(files) THEN "start" ELSE "finished"
    /\ UNCHANGED << scan_vars, json_vars >>
    /\ UNCHANGED << flow, answers, token, listing, files, sends, tries, calls, file_link,
                    object_name, batch_id, ret, log_entry >>

\* app.py:890-893 ; test.py:101-105
Record ==
    /\ pc = "returned"
    /\ IF Interactive
       THEN /\ successes' = IF ret.ok THEN successes + 1 ELSE successes
            /\ failures' = IF ret.ok THEN failures ELSE failures + 1
            /\ errors' = IF ret.ok THEN errors
                         ELSE Append(errors, [file |-> files[idx], msg |-> ret.msg])
            /\ UNCHANGED << log_data, persisted >>
       ELSE /\ log_data' = Put(log_data, Prefix(files[idx]), log_entry)
            /\ persisted' = log_data'
            /\ UNCHANGED << successes, failures, errors >>
    /\ hist' = Append(hist, [file |-> files[idx], ok |-> RunSucceeded])
    /\ idx' = idx + 1
    /\ pc' = IF idx < Len(files) THEN "start" ELSE "finished"
    /\ UNCHANGED << scan_vars, json_vars >>
    /\ UNCHANGED << flow, answers, token, listing, files, sends, tries, calls, file_link,
                    object_name, batch_id, ret, log_entry >>

Next ==
    \/ Launch
    \/ BeginRun
    \/ UploadReply
    \/ RegisterReply
    \/ ImportReply
    \/ Record

Spec == Init /\ [][Next]_vars

SpecAuth == InitAuth /\ [][Next]_vars

SpecBatch == InitBatch /\ [][Next]_vars

\* app.py:874-885: a batch of the bulk upload
InitBulk == InitBatch /\ flow = "interactive"

\* every call is made with a connect and a read timeout (app.py:109, 151, 165) and
\* the transport re-sends a bounded number of times, so a call that is on the wire
\* is answered or fails, and the bulk upload loop over the files goes on by itself
SpecBulkFair == InitBulk /\ [][Next]_vars /\ WF_vars(Next)

----------------------------------------------------------------------------
(* The Drive folder crawl: app.py:269-316 *)

\* most items under the scanned folder
MaxItems == 7

\* app.py:275
max_retries == 5

\* a mimeType is kept as the pieces the code looks for
FOLDER == << "application/vnd.google-apps.folder" >>

\* folder_id: the scanned folder
Root == 0

\* the items the scanned folder may hold, by id
Item(id) ==
    CASE id = 1 -> [id |-> 1, name |-> "a", mimeType |-> FOLDER, parent |-> Root]
      [] id = 2 -> [id |-> 2, name |-> "x.png", mimeType |-> << "image/", "png" >>,
                    parent |-> Root]
      [] id = 3 -> [id |-> 3, name |-> "b", mimeType |-> FOLDER, parent |-> 1]
      [] id = 4 -> [id |-> 4, name |-> "x.png", mimeType |-> << "image/", "jpeg" >>,
                    parent |-> 3]
      [] id = 5 -> [id |-> 5, name |-> "y.png", mimeType |-> << "image/", "png" >>,
                    parent |-> 1]
      [] id = 6 -> [id |-> 6, name |-> "raw", parent |-> Root,
                    mimeType |-> << "application/x-", "image/", "raw" >>]
      [] id = 7 -> [id |-> 7, name |-> "notes.pdf", mimeType |-> << "application/pdf" >>,
                    parent |-> 1]
      [] id = 8 -> [id |-> 8, name |-> "c", mimeType |-> FOLDER, parent |-> 3]
      [] OTHER  -> [id |-> id, name |-> "z.png", mimeType |-> << "image/", "png" >>,
                    parent |-> 8]

\* the folder trees: every item lies in the scanned folder or in a folder of the tree
Trees ==
    {S \in SUBSET {Item(i) : i \in 1..MaxItems} :
        \A f \in S : f.parent = Root
                     \/ \E g \in S : g.id = f.parent /\ g.mimeType = FOLDER}

\* mimeType = 'application/vnd.google-apps.folder' or mimeType contains 'image/'
\* (app.py:272-273)
QueryMatches(mime) ==
    mime = FOLDER \/ \E i \in 1..Len(mime) : mime[i] = "image/"

\* mime.startswith("image/")
IsImage(mime) == mime[1] = "image/"

RECURSIVE ById(_)
ById(S) ==
    IF S = {} THEN << >>
    ELSE LET m == CHOOSE x \in S : \A y \in S : x.id <= y.id
         IN  << m >> \o ById(S \ {m})

\* what files().list answers for a folder, all pages together
Listing(parent_id) ==
    ById({f \in drive : f.parent = parent_id /\ QueryMatches(f.mimeType)})

\* pageToken=None
NoToken == 0

\* app.py:275: max_retries, backoff = 5, 1.5; the base as the fraction 3/2
backoff == [num |-> 3, den |-> 2]

\* backoff ** attempt, exact: the base is a dyadic fraction
RECURSIVE Pow(_, _)
Pow(b, n) ==
    IF n = 0 THEN [num |-> 1, den |-> 1]
    ELSE LET r == Pow(b, n - 1)
         IN  [num |-> r.num * b.num, den |-> r.den * b.den]

\* app.py:269-275: a call of list_drive_images_recursive before its first page;
\* slept holds the time.sleep calls made for the page being fetched
Frame(parent_id, current_path) ==
    [parent_id |-> parent_id, current_path |-> current_path, page_token |-> NoToken,
     attempt |-> 0, slept |-> << >>, stage |-> "fetch", files |-> << >>,
     nextPageToken |-> NoToken]

Top == stack[Len(stack)]

SetTop(fr) == [stack EXCEPT ![Len(stack)] = fr]

\* f"https://drive.google.com/file/d/{f['id']}/view"
ImageLink(id) == << "https://drive.google.com/file/d/", id, "/view" >>

\* f"level_{i}"
LevelCol(i) ==
    CASE i = 0 -> "level_0"
      [] i = 1 -> "level_1"
      [] i = 2 -> "level_2"
      [] i = 3 -> "level_3"
      [] OTHER -> "level_4"

RECURSIVE MaxLen(_)
MaxLen(paths) ==
    IF paths = {} THEN 0
    ELSE LET p == CHOOSE x \in paths : TRUE
             m == MaxLen(paths \ {p})
         IN  IF Len(p) > m THEN Len(p) ELSE m

\* "/".join(x)
Join(sep, x) == [sep |-> sep, parts |-> x]

\* mutant: a short path leaves its deeper level columns out
build_drive_dataframe_unpadded(imgs) ==
    IF imgs = << >> THEN [df |-> << >>, available_fields |-> << >>]
    ELSE LET max_depth == MaxLen({imgs[k].full_path : k \in 1..Len(imgs)})
             Row(r) ==
                 [c \in {"image_name", "image_link", "full_path", "path_preview"}
                        \cup {LevelCol(i) : i \in 0..(Len(r.full_path) - 1)} |->
                     CASE c = "image_name"   -> r.image_name
                       [] c = "image_link"   -> r.image_link
                       [] c = "full_path"    -> r.full_path
                       [] c = "path_preview" -> Join("/", r.full_path)
                       [] OTHER ->
                            LET i == CHOOSE j \in 0..(max_depth - 1) : LevelCol(j) = c
                            IN  r.full_path[i + 1]]
         IN  [df |-> [k \in 1..Len(imgs) |-> Row(imgs[k])],
              available_fields |->
                  << "image_name" >> \o [i \in 1..max_depth |-> LevelCol(i - 1)]
                     \o << "image_link", "path_preview" >>]

\* app.py:305-316, after the crawl returned image_data
build_drive_dataframe(imgs) ==
    IF imgs = << >> THEN [df |-> << >>, available_fields |-> << >>]
    ELSE LET max_depth == MaxLen({imgs[k].full_path : k \in 1..Len(imgs)})
             Row(r) ==
                 [c \in {"image_name", "image_link", "full_path", "path_preview"}
                        \cup {LevelCol(i) : i \in 0..(max_depth - 1)} |->
                     CASE c = "image_name"   -> r.image_name
                       [] c = "image_link"   -> r.image_link
                       [] c = "full_path"    -> r.full_path
                       [] c = "path_preview" -> Join("/", r.full_path)
                       [] OTHER ->
                            LET i == CHOOSE j \in 0..(max_depth - 1) : LevelCol(j) = c
                            IN  IF i < Len(r.full_path) THEN r.full_path[i + 1] ELSE ""]
         IN  [df |-> [k \in 1..Len(imgs) |-> Row(imgs[k])],
              available_fields |->
                  << "image_name" >> \o [i \in 1..max_depth |-> LevelCol(i - 1)]
                     \o << "image_link", "path_preview" >>]

\* app.py:306-307 and 269-271: build_drive_dataframe calls the crawl on folder_id
StartScan ==
    /\ scan = "idle"
    /\ scan' = "crawling"
    /\ stack' = << Frame(Root, << >>) >>
    /\ results' = << >>
    /\ UNCHANGED << drive, image_data, drive_df, exhausted, retried >>
    /\ UNCHANGED << pipeline_vars, json_vars >>

\* app.py:277-286: req.execute returns a page, however the server cuts the listing
PageArrives ==
    /\ scan = "crawling"
    /\ Top.stage = "fetch"
    /\ LET L == Listing(Top.parent_id)
           rest == SubSeq(L, Top.page_token + 1, Len(L))
       IN  \E n \in (IF rest = << >> THEN {0} ELSE 1..Len(rest)) :
             stack' = SetTop([Top EXCEPT
                        !.files = SubSeq(rest, 1, n),
                        !.nextPageToken = IF Top.page_token + n < Len(L)
                                          THEN Top.page_token + n ELSE NoToken,
                        !.stage = "items"])
    /\ UNCHANGED << drive, scan, results, image_data, drive_df, exhausted, retried >>
    /\ UNCHANGED << pipeline_vars, json_vars >>

\* mutant: a failed fetch moves on past the first entry of the page
PageFailsAdvances ==
    /\ scan = "crawling"
    /\ Top.stage = "fetch"
    /\ IF Top.attempt + 1 >= max_retries
       THEN /\ stack' = << >>
            /\ scan' = "raised"
            /\ exhausted' = TRUE
            /\ UNCHANGED retried
       ELSE /\ stack' = SetTop([Top EXCEPT
                          !.attempt = @ + 1,
                          !.slept = Append(@, Pow(backoff, Top.attempt + 1)),
                          !.page_token = IF @ < Len(Listing(Top.parent_id))
                                         THEN @ + 1 ELSE @])
            /\ retried' = TRUE
            /\ UNCHANGED << scan, exhausted >>
    /\ UNCHANGED << drive, results, image_data, drive_df >>
    /\ UNCHANGED << pipeline_vars, json_vars >>

\* mutant: a page that failed on every attempt ends its folder, the crawl goes on
PageFailsSwallowed ==
    /\ scan = "crawling"
    /\ Top.stage = "fetch"
    /\ IF Top.attempt + 1 >= max_retries
       THEN /\ stack' = SetTop([Top EXCEPT !.attempt = @ + 1, !.stage = "items",
                                            !.files = << >>,
                                            !.nextPageToken = NoToken])
            /\ exhausted' = TRUE
            /\ UNCHANGED << scan, retried >>
       ELSE /\ stack' = SetTop([Top EXCEPT
                          !.attempt = @ + 1,
                          !.slept = Append(@, Pow(backoff, Top.attempt + 1))])
            /\ retried' = TRUE
            /\ UNCHANGED << scan, exhausted >>
    /\ UNCHANGED << drive, results, image_data, drive_df >>
    /\ UNCHANGED << pipeline_vars, json_vars >>

\* mutant: a retry starts the folder's listing over from its first page
PageFailsRestarts ==
    /\ scan = "crawling"
    /\ Top.stage = "fetch"
    /\ IF Top.attempt + 1 >= max_retries
       THEN /\ stack' = << >>
            /\ scan' = "raised"
            /\ exhausted' = TRUE
            /\ UNCHANGED retried
       ELSE /\ stack' = SetTop([Top EXCEPT
                          !.attempt = @ + 1,
                          !.slept = Append(@, Pow(backoff, Top.attempt + 1)),
                          !.page_token = NoToken])
            /\ retried' = TRUE
            /\ UNCHANGED << scan, exhausted >>
    /\ UNCHANGED << drive, results, image_data, drive_df >>
    /\ UNCHANGED << pipeline_vars, json_vars >>

\* mutant: the attempt counter is compared with > and a page is tried once more
PageFailsOnceMore ==
    /\ scan = "crawling"
    /\ Top.stage = "fetch"
    /\ IF Top.attempt + 1 > max_retries
       THEN /\ stack' = << >>
            /\ scan' = "raised"
            /\ exhausted' = TRUE
            /\ UNCHANGED retried
       ELSE /\ stack' = SetTop([Top EXCEPT
                          !.attempt = @ + 1,
                          !.slept = Append(@, Pow(backoff, Top.attempt + 1))])
            /\ retried' = TRUE
            /\ UNCHANGED << scan, exhausted >>
    /\ UNCHANGED << drive, results, image_data, drive_df >>
    /\ UNCHANGED << pipeline_vars, json_vars >>

\* app.py:287-290: req.execute(num_retries=3) raises, the client library's own
\* re-sends of the same request included; the failure is counted, and either re-raised
\* (the fifth of a page, through every frame and out of build_drive_dataframe) or
\* followed by time.sleep(backoff ** attempt) and another execute of the same req
PageFails ==
    /\ scan = "crawling"
    /\ Top.stage = "fetch"
    /\ IF Top.attempt + 1 >= max_retries
       THEN /\ stack' = << >>
            /\ scan' = "raised"
            /\ exhausted' = TRUE
            /\ UNCHANGED retried
       ELSE /\ stack' = SetTop([Top EXCEPT
                          !.attempt = @ + 1,
                          !.slept = Append(@, Pow(backoff, Top.attempt + 1))])
            /\ retried' = TRUE
            /\ UNCHANGED << scan, exhausted >>
    /\ UNCHANGED << drive, results, image_data, drive_df >>
    /\ UNCHANGED << pipeline_vars, json_vars >>

\* mutant: the recursion passes current_path on without the folder's name
EntryDropsFolderName ==
    /\ scan = "crawling"
    /\ Top.stage = "items"
    /\ Top.files # << >>
    /\ LET f == Head(Top.files)
           rest == SetTop([Top EXCEPT !.files = Tail(@)])
       IN  IF f.mimeType = FOLDER
           THEN /\ stack' = Append(rest, Frame(f.id, Top.current_path))
                /\ UNCHANGED results
           ELSE IF IsImage(f.mimeType)
           THEN /\ results' = Append(results,
                      [image_name |-> f.name, image_link |-> ImageLink(f.id),
                       full_path |-> Append(Top.current_path, f.name)])
                /\ stack' = rest
           ELSE /\ stack' = rest
                /\ UNCHANGED results
    /\ UNCHANGED << drive, scan, image_data, drive_df, exhausted, retried >>
    /\ UNCHANGED << pipeline_vars, json_vars >>

\* mutant: a sub-folder met in a page is put aside and listed only after the
\* folder that holds it has been paged through
EntryDefersFolder ==
    /\ scan = "crawling"
    /\ Top.stage = "items"
    /\ Top.files # << >>
    /\ LET f == Head(Top.files)
           rest == SetTop([Top EXCEPT !.files = Tail(@)])
       IN  IF f.mimeType = FOLDER
           THEN /\ stack' = << Frame(f.id, Append(Top.current_path, f.name)) >> \o rest
                /\ UNCHANGED results
           ELSE IF IsImage(f.mimeType)
           THEN /\ results' = Append(results,
                      [image_name |-> f.name, image_link |-> ImageLink(f.id),
                       full_path |-> Append(Top.current_path, f.name)])
                /\ stack' = rest
           ELSE /\ stack' = rest
                /\ UNCHANGED results
    /\ UNCHANGED << drive, scan, image_data, drive_df, exhausted, retried >>
    /\ UNCHANGED << pipeline_vars, json_vars >>

\* app.py:291-300: the next entry of the page; a folder is listed at once, by the
\* recursive call, before the entries after it
Entry ==
    /\ scan = "crawling"
    /\ Top.stage = "items"
    /\ Top.files # << >>
    /\ LET f == Head(Top.files)
           rest == SetTop([Top EXCEPT !.files = Tail(@)])
       IN  IF f.mimeType = FOLDER
           THEN /\ stack' = Append(rest, Frame(f.id, Append(Top.current_path, f.name)))
                /\ UNCHANGED results
           ELSE IF IsImage(f.mimeType)
           THEN /\ results' = Append(results,
                      [image_name |-> f.name, image_link |-> ImageLink(f.id),
                       full_path |-> Append(Top.current_path, f.name)])
                /\ stack' = rest
           ELSE /\ stack' = rest
                /\ UNCHANGED results
    /\ UNCHANGED << drive, scan, image_data, drive_df, exhausted, retried >>
    /\ UNCHANGED << pipeline_vars, json_vars >>

\* app.py:301-303 and 307-316: the page is done; the next page, the return to the
\* enclosing folder, or the return to build_drive_dataframe, which builds the table
PageEnd ==
    /\ scan = "crawling"
    /\ Top.stage = "items"
    /\ Top.files = << >>
    /\ IF Top.nextPageToken # NoToken
       THEN /\ stack' = SetTop([Top EXCEPT !.page_token = Top.nextPageToken,
                                            !.attempt = 0, !.slept = << >>,
                                            !.stage = "fetch"])
            /\ UNCHANGED << scan, image_data, drive_df >>
       ELSE IF Len(stack) > 1
       THEN /\ stack' = SubSeq(stack, 1, Len(stack) - 1)
            /\ UNCHANGED << scan, image_data, drive_df >>
       ELSE /\ stack' = << >>
            /\ image_data' = results
            /\ drive_df' = build_drive_dataframe(results)
            /\ scan' = "returned"
    /\ UNCHANGED << drive, results, exhausted, retried >>
    /\ UNCHANGED << pipeline_vars, json_vars >>

NextScan ==
    \/ StartScan
    \/ PageArrives
    \/ PageFails
    \/ Entry
    \/ PageEnd

InitScan ==
    /\ PipelineOff
    /\ JsonOff
    /\ drive \in Trees
    /\ scan = "idle"
    /\ stack = << >>
    /\ results = << >>
    /\ image_data = NoData
    /\ drive_df = NoTable
    /\ exhausted = FALSE
    /\ retried = FALSE

SpecScan == InitScan /\ [][NextScan]_vars

----------------------------------------------------------------------------
(* The JSON flattener: app.py:345-388 *)

\* most children of inputData in a work item
MaxChildren == 3

\* most work items of a document that holds several
MaxWorkItems == 2

\* A key is the sequence of its characters; a run of characters the code never
\* looks into is kept as one element.  A dict is the sequence of its items, in
\* insertion order.
Dict(items) == [t |-> "dict", items |-> items]

List(elems) == [t |-> "list", elems |-> elems]

KV(k, v) == [k |-> k, v |-> v]

\* isinstance(v, dict)
IsDict(v) == v.t = "dict"

Keys(d) == {d.items[i].k : i \in 1..Len(d.items)}

\* d[k]
At(d, k) == d.items[CHOOSE i \in 1..Len(d.items) : d.items[i].k = k].v

\* d.get(k, default)
Get(d, k, default) == IF k \in Keys(d) THEN At(d, k) ELSE default

\* {}
EmptyRow == [k \in {} |-> None]

\* out.update(other), {**out, **other}
Update(out, other) ==
    [k \in DOMAIN out \cup DOMAIN other |-> IF k \in DOMAIN other THEN other[k] ELSE out[k]]

Sep == << "-" >>

\* f"workitems-{k}"
WI(k) == << "workitems" >> \o Sep \o k

\* re.fullmatch(r"Image_\\d+", ik): "Image_", a backslash, then one or more "d"
Fullmatch(ik) ==
    /\ Len(ik) >= 3
    /\ ik[1] = "Image_"
    /\ ik[2] = "\\"
    /\ \A i \in 3..Len(ik) : ik[i] = "d"

\* ", ".join(images): TypeError unless every element is a str
JoinImages(images) ==
    IF \A i \in 1..Len(images) : images[i].t = "str"
    THEN [t |-> "str", sep |-> ", ", parts |-> [i \in 1..Len(images) |-> images[i].v]]
    ELSE [t |-> "TypeError"]

RECURSIVE _flatten_leaves(_, _)
RECURSIVE FlattenItems(_, _, _)
\* app.py:347-352: the loop of _flatten_leaves over d.items()
FlattenItems(items, parent_prefix, out) ==
    IF items = << >> THEN out
    ELSE LET k == Head(items).k
             v == Head(items).v
             key_path == IF parent_prefix # << >> THEN parent_prefix \o Sep \o k ELSE k
         IN  FlattenItems(Tail(items), parent_prefix,
                          IF IsDict(v) THEN Update(out, _flatten_leaves(v, key_path))
                          ELSE Put(out, key_path, v))

\* app.py:345-353
_flatten_leaves(d, parent_prefix) == FlattenItems(d.items, parent_prefix, EmptyRow)

\* app.py:370-377: the loop over the items of inputData
RECURSIVE InputItems(_, _, _)
InputItems(items, k, acc) ==
    IF items = << >> THEN acc
    ELSE LET ik == Head(items).k
             iv == Head(items).v
         IN  InputItems(Tail(items), k,
                 IF Fullmatch(ik)
                 THEN [acc EXCEPT !.images = Append(@, iv)]
                 ELSE IF IsDict(iv)
                 THEN [acc EXCEPT !.row = Update(@, _flatten_leaves(iv, WI(k)))]
                 ELSE [acc EXCEPT !.row = Put(@, WI(k) \o Sep \o ik, iv)])

\* app.py:365-383: the loop over the items of a work item
RECURSIVE ItemFields(_, _)
ItemFields(items, row) ==
    IF items = << >> THEN row
    ELSE LET k == Head(items).k
             v == Head(items).v
         IN  ItemFields(Tail(items),
                 IF k = << "workItemId" >> THEN row
                 ELSE IF IsDict(v)
                 THEN IF k = << "inputData" >>
                      THEN LET acc == InputItems(v.items, k,
                                                 [row |-> row, images |-> << >>])
                           IN  IF acc.images # << >>
                               THEN Put(acc.row, WI(<< "inputData" >>) \o Sep \o << "Image" >>,
                                        JoinImages(acc.images))
                               ELSE acc.row
                      ELSE Update(row, _flatten_leaves(v, WI(k)))
                 ELSE Put(row, WI(k), v))

\* app.py:362-383: the row of one work item
WorkItemRow(wi) ==
    ItemFields(wi.items,
               IF << "workItemId" >> \in Keys(wi)
               THEN Put(EmptyRow, WI(<< "workItemId" >>), At(wi, << "workItemId" >>))
               ELSE EmptyRow)

\* app.py:358-359
FileMetaFlat(doc) ==
    LET file_meta == Get(doc, << "fileMetadata" >>, Dict(<< >>))
    IN  [key \in {<< "fileMetadata" >> \o Sep \o k : k \in Keys(file_meta)} |->
            At(file_meta, SubSeq(key, 3, Len(key)))]

\* mutant: the file metadata is merged into the first record only
build_json_dataframe_meta_once(doc) ==
    LET workitems == Get(doc, << "workitems" >>, List(<< >>)).elems
        file_meta_flat == FileMetaFlat(doc)
        rows == [i \in 1..Len(workitems) |->
                    IF i = 1 THEN Update(file_meta_flat, WorkItemRow(workitems[i]))
                    ELSE WorkItemRow(workitems[i])]
    IN  IF \E i \in 1..Len(workitems) :
              \E key \in DOMAIN WorkItemRow(workitems[i]) :
                  WorkItemRow(workitems[i])[key].t = "TypeError"
        THEN [raised |-> TRUE, rows |-> << >>]
        ELSE [raised |-> FALSE, rows |-> rows]

\* app.py:355-388
build_json_dataframe(doc) ==
    LET workitems == Get(doc, << "workitems" >>, List(<< >>)).elems
        file_meta_flat == FileMetaFlat(doc)
        rows == [i \in 1..Len(workitems) |->
                    Update(file_meta_flat, WorkItemRow(workitems[i]))]
    IN  IF \E i \in 1..Len(workitems) :
              \E key \in DOMAIN WorkItemRow(workitems[i]) :
                  WorkItemRow(workitems[i])[key].t = "TypeError"
        THEN [raised |-> TRUE, rows |-> << >>]
        ELSE [raised |-> FALSE, rows |-> rows]

\* a mapping two levels deep
Nested ==
    Dict(<< KV(<< "a" >>, JInt("1")),
            KV(<< "deep" >>, Dict(<< KV(<< "b" >>, JInt("2")) >>)) >>)

\* what inputData may hold
InputMenu ==
    { KV(<< "Image_", "2" >>, JStr("b.png")),
      KV(<< "Image_", "1" >>, JStr("a.png")),
      KV(<< "note" >>, JStr("x")),
      KV(<< "meta" >>, Nested),
      KV(<< "info" >>, Dict(<< KV(<< "a" >>, JInt("3")) >>)),
      KV(<< "Image_", "\\", "d" >>, JStr("c.png")),
      KV(<< "Image_", "\\", "d", "d" >>, JInt("5")) }

\* the sequences of up to n distinct elements of S
RECURSIVE Arrangements(_, _)
Arrangements(S, n) ==
    IF n = 0 THEN {<< >>}
    ELSE {<< >>} \cup UNION {{<< x >> \o r : r \in Arrangements(S \ {x}, n - 1)} : x \in S}

\* the work items of the uploaded documents
WorkItems ==
    { Dict((IF id THEN << KV(<< "workItemId" >>, JInt("17")) >> ELSE << >>)
           \o << KV(<< "inputData" >>, Dict(ch)) >>
           \o (IF more THEN << KV(<< "review" >>, Nested),
                               KV(<< "status" >>, JStr("done")) >>
               ELSE << >>)) :
        id \in BOOLEAN, more \in BOOLEAN, ch \in Arrangements(InputMenu, MaxChildren) }

FileMetas ==
    { << >>,
      << KV(<< "fileMetadata" >>, Dict(<< KV(<< "source" >>, JStr("s")) >>)) >>,
      << KV(<< "fileMetadata" >>,
            Dict(<< KV(<< "camera" >>, Dict(<< KV(<< "make" >>, JStr("m")) >>)) >>)) >> }

\* the work items of the documents that hold several
SmallItems ==
    { Dict(<< KV(<< "workItemId" >>, JInt("17")),
              KV(<< "inputData" >>, Dict(<< KV(<< "note" >>, JStr("x")) >>)) >>),
      Dict(<< KV(<< "inputData" >>, Dict(<< KV(<< "meta" >>, Nested) >>)),
              KV(<< "status" >>, JStr("done")) >>),
      Dict(<< KV(<< "review" >>,
                 Dict(<< KV(<< "a", "-", "b" >>, JInt("1")),
                         KV(<< "a" >>, Dict(<< KV(<< "b" >>, JInt("2")) >>)) >>)) >>) }

\* json.load(text_fp): the documents an operator may upload
Docs ==
    { Dict(fm \o << KV(<< "workitems" >>, List(<< wi >>)) >>) :
        fm \in FileMetas, wi \in WorkItems }
    \cup { Dict(fm \o << KV(<< "workitems" >>, List(ws)) >>) :
             fm \in FileMetas, ws \in Arrangements(SmallItems, MaxWorkItems) }
    \cup { Dict(fm) : fm \in FileMetas }

\* app.py:605-607: the uploaded document is parsed
Parse ==
    /\ ~parsed
    /\ parsed' = TRUE
    /\ df_json' = build_json_dataframe(data)
    /\ UNCHANGED data
    /\ UNCHANGED << pipeline_vars, scan_vars >>

NextJson == Parse

InitJson ==
    /\ PipelineOff
    /\ ScanOff
    /\ data \in Docs
    /\ df_json = NoTable
    /\ parsed = FALSE

SpecJson == InitJson /\ [][NextJson]_vars

----------------------------------------------------------------------------
(* Claims *)

\* the pipeline run of the current file is over
RunOver == pc \in {"returned", "start", "finished"} /\ calls # << >>

Steps == {calls[k].step : k \in 1..Len(calls)}

\* C1: in every pipeline run the register call is issued only after the upload
\* call returned successfully and the import call only after the register call
\* returned successfully; upload is always the first call.
C1_StagesInOrder ==
    \A k \in 1..Len(calls) :
        /\ (calls[k].step = "upload") <=> (k = 1)
        /\ calls[k].step = "register" =>
              k = 2 /\ calls[1].step = "upload" /\ calls[1].state = "returned"
        /\ calls[k].step = "import" =>
              k = 3 /\ calls[2].step = "register" /\ calls[2].state = "returned"

C1_Witness ==
    /\ ~Interactive
    /\ pc = "import"
    /\ Len(calls) = 3
    /\ calls[3].step = "import"

\* C2: a run of upload_pipeline whose upload succeeded and whose registration
\* call ended, retries exhausted, with HTTP 500 ends Failed (ok = False) with the
\* message of the registration step, and issues no import call.
C2_Register500Fails ==
    (/\ Interactive
     /\ Len(calls) >= 2
     /\ calls[2].state # "inflight"
     /\ calls[2].resp.status = 500)
    => /\ Len(calls) = 2
       /\ "import" \notin Steps
       /\ RunOver
       /\ ret.ok = FALSE
       /\ ret.msg.text = "Create-batch step failed:"
       /\ ret.msg.http.status = 500

C2_Witness ==
    /\ Interactive
    /\ pc = "returned"
    /\ Len(calls) = 2
    /\ calls[1].state = "returned"
    /\ Len(tries) = 5
    /\ \A i \in 1..5 : tries[i].status = 500

\* C3: no retry and no compensation at the pipeline level: within one run each
\* stage is called at most once, only the three stages are ever called, and a
\* stage that failed is the last call of the run, after which nothing is on
\* the wire.
C3_NoPipelineRetry ==
    /\ Len(calls) <= 3
    /\ Steps \subseteq {"upload", "register", "import"}
    /\ \A j, k \in 1..Len(calls) : calls[j].step = calls[k].step => j = k
    /\ \A k \in 1..Len(calls) :
          /\ calls[k].state = "inflight" => k = Len(calls)
          /\ calls[k].state = "raised" => k = Len(calls) /\ RunOver /\ sends = 0

C3_Witness ==
    /\ pc = "returned"
    /\ Len(calls) = 2
    /\ calls[1].state = "returned"
    /\ calls[2].state = "raised"
    /\ calls[2].resp.status = 404

\* the stage call k of the run ended with an answer of the server
Answered(k) ==
    /\ Len(calls) >= k
    /\ calls[k].state # "inflight"
    /\ ~calls[k].resp.exc

Is2xx(r) == r.status >= 200 /\ r.status <= 299

IsErrorStatus(r) == r.status >= 400 /\ r.status <= 599

HasLink(r) == HasField(r, "fileLink") /\ Truthy(r.body.fields.fileLink)

\* the run ended Failed in its stage k, which was its last call
FailedIn(k) ==
    /\ Len(calls) = k
    /\ calls[k].state = "raised"
    /\ RunOver
    /\ IF Interactive THEN ret.ok = FALSE ELSE log_entry.status = "failed"

\* the run ended Done
Done ==
    /\ Len(calls) = 3
    /\ calls[3].state = "returned"
    /\ RunOver
    /\ IF Interactive THEN ret.ok = TRUE ELSE log_entry.status = "imported"

\* C4 as claimed: in upload_pipeline a non-2xx final status, a 2xx body that is
\* not JSON and a 2xx JSON body with no or an empty fileLink are each fatal:
\* the run ends Failed with neither register nor import called.
C4_Original ==
    (/\ Interactive
     /\ Answered(1)
     /\ \/ ~Is2xx(calls[1].resp)
        \/ Is2xx(calls[1].resp) /\ ~IsJson(calls[1].resp)
        \/ Is2xx(calls[1].resp) /\ IsJson(calls[1].resp) /\ ~HasLink(calls[1].resp))
    => FailedIn(1)

\* C4 as amended: a final status in 400..599, a 2xx body that is not JSON and a
\* 2xx JSON body with no or an empty fileLink are each fatal in upload_pipeline:
\* the run ends Failed with neither register nor import called.
C4_UploadFatal ==
    (/\ Interactive
     /\ Answered(1)
     /\ \/ IsErrorStatus(calls[1].resp)
        \/ Is2xx(calls[1].resp) /\ ~IsJson(calls[1].resp)
        \/ Is2xx(calls[1].resp) /\ IsJson(calls[1].resp) /\ ~HasLink(calls[1].resp))
    => FailedIn(1)

C4_Witness ==
    /\ Interactive
    /\ Answered(1)
    /\ Is2xx(calls[1].resp)
    /\ HasField(calls[1].resp, "fileLink")
    /\ ~HasLink(calls[1].resp)
    /\ FailedIn(1)

\* C5: the Registering stage succeeds only on a 2xx JSON answer whose id is an
\* integer; on every other answer (id null or a string included) the run ends
\* Failed and the import call is not issued.
C5_IntegerIdRequired ==
    (/\ Answered(2)
     /\ ~(/\ Is2xx(calls[2].resp)
          /\ HasField(calls[2].resp, "id")
          /\ calls[2].resp.body.fields.id.t = "int"))
    => FailedIn(2)

\* C6 as claimed: a 2xx answer to import with an empty, blank or JSON body
\* makes the run Done; any non-2xx answer makes it Failed.
C6_Original ==
    Answered(3) =>
       /\ (Is2xx(calls[3].resp) /\ (~HasText(calls[3].resp) \/ IsJson(calls[3].resp)))
             => Done
       /\ ~Is2xx(calls[3].resp) => FailedIn(3)

\* C6 as amended: a 2xx answer to import with an empty, blank or JSON body
\* makes the run Done; any answer with a status in 400..599 makes it Failed.
C6_ImportOutcome ==
    Answered(3) =>
       /\ (Is2xx(calls[3].resp) /\ (~HasText(calls[3].resp) \/ IsJson(calls[3].resp)))
             => Done
       /\ IsErrorStatus(calls[3].resp) => FailedIn(3)

C6_Witness ==
    /\ Answered(3)
    /\ calls[3].resp.status = 200
    /\ calls[3].resp.body = BlankBody
    /\ Done

\* how many times s begins with "Bearer " (in any letter case), back to back
RECURSIVE PrefixCount(_)
PrefixCount(s) ==
    IF StartsWith(Lower(s), bearer_sp)
    THEN 1 + PrefixCount(SubSeq(s, Len(bearer_sp) + 1, Len(s)))
    ELSE 0

\* s without those prefixes
RECURSIVE Credential(_)
Credential(s) ==
    IF StartsWith(Lower(s), bearer_sp)
    THEN Credential(SubSeq(s, Len(bearer_sp) + 1, Len(s)))
    ELSE s

\* the token as the caller supplied it to the calls of this run
Supplied == IF Interactive THEN token ELSE TOKEN

\* C7 as claimed: whatever token the caller supplies, every call of the
\* pipeline carries an Authorization header that begins with exactly one
\* "Bearer " prefix.
C7_Original ==
    \A k \in 1..Len(calls) :
        /\ "Authorization" \in DOMAIN calls[k].headers
        /\ PrefixCount(calls[k].headers.Authorization) = 1

\* C7 as amended: a blank token yields no Authorization header; any other token
\* is sent stripped of surrounding whitespace, with one "Bearer " added in
\* front exactly when the stripped token does not already begin with "bearer "
\* in some letter case, and otherwise as supplied (nothing added, letter case
\* kept), so the calls never carry more prefixes than max(1, those supplied).
C7_BearerNormalised ==
    \A k \in 1..Len(calls) :
        LET h == calls[k].headers
            t == Strip(Supplied)
        IN  IF t = << >>
            THEN "Authorization" \notin DOMAIN h
            ELSE /\ "Authorization" \in DOMAIN h
                 /\ Credential(h.Authorization) = Credential(t)
                 /\ IF PrefixCount(t) = 0
                    THEN /\ PrefixCount(h.Authorization) = 1
                         /\ StartsWith(h.Authorization, BearerSp)
                    ELSE h.Authorization = t

C7_Witness ==
    /\ Interactive
    /\ token = << " " >> \o BearerSp \o RawToken \o << " " >>
    /\ Len(calls) = 3
    /\ \A k \in 1..3 : calls[k].headers.Authorization = BearerSp \o RawToken

\* the failure message carries the diagnostics of the answer the call c got
Diagnosed(msg, c) ==
    /\ msg.http # NoDiag
    /\ msg.http.status = c.resp.status
    /\ msg.http.method = c.method
    /\ msg.http.url = c.url
    /\ msg.http.headers = c.resp.headers
    /\ msg.http.body.kind = c.resp.body.kind
    /\ msg.http.body.len = Min(c.resp.body.len, BodyLimit)

FailedOutcome == Interactive /\ RunOver /\ ret.ok = FALSE

LastCall == calls[Len(calls)]

Formatted(c) ==
    /\ ~c.resp.exc
    /\ \/ IsErrorStatus(c.resp)
       \/ c.step = "upload" /\ ~IsJson(c.resp)
       \/ c.step = "register"

Finished == pc = "finished" /\ files # << >>

\* what happened to each file, as the runs ended
Outcomes == {[file |-> hist[i].file, ok |-> hist[i].ok] : i \in 1..Len(hist)}

\* the per-file entries a log holds
Entries(log) ==
    {[file |-> log[p].file, ok |-> (log[p].status = "imported")] : p \in DOMAIN log}

\* the per-file entries the flow leaves behind: the log of the unattended flow,
\* the error messages of the interactive flow
Report ==
    IF Interactive
    THEN {[file |-> errors[k].file, ok |-> FALSE] : k \in 1..Len(errors)}
    ELSE Entries(log_data)

\* every file was run, in the order of the batch
AllAttempted ==
    /\ Len(hist) = Len(files)
    /\ \A i \in 1..Len(files) : hist[i].file = files[i]

Underway == idx >= 1 /\ pc \in {"start", "upload", "register", "import", "returned"}

\* the stored report holds how the files before file number idx ended
EarlierKept ==
    \A j \in 1..(idx - 1) :
        /\ Prefix(files[j]) \in DOMAIN persisted
        /\ persisted[Prefix(files[j])].file = files[j]
        /\ persisted[Prefix(files[j])].status =
              (IF hist[j].ok THEN "imported" ELSE "failed")

InFlight == pc \in {"upload", "register", "import"}

\* the answers after which the current call was sent again
Resent ==
    IF InFlight THEN tries
    ELSE IF tries = << >> THEN << >>
    ELSE SubSeq(tries, 1, Len(tries) - 1)

\* no response at all, or a status of the force list
Transient(a) == a.status = 0 \/ a.status \in status_forcelist

\* C11 as claimed: a call is sent again only after a response with status 429,
\* 500, 502, 503 or 504 or after a connection/read failure, at most 4 times
\* (5 sends per call), and any other 4xx response is returned to the caller
\* without the call being sent again.
C11_Original ==
    /\ \A i \in 1..Len(Resent) : Transient(Resent[i])
    /\ Len(Resent) <= DEFAULT_TOTAL_RETRIES
    /\ sends <= DEFAULT_TOTAL_RETRIES + 1

\* C11 as amended: in the interactive flow a call is sent again only after a
\* connection/read failure, after a response with status 429, 500, 502, 503 or
\* 504, or after a response with status 413 that carries a Retry-After header,
\* at most 4 times (5 sends per call); every other response is returned to the
\* caller without the call being sent again. In the unattended flow no call is
\* ever sent again.
C11_BoundedRetry ==
    /\ \A i \in 1..Len(Resent) :
          \/ Transient(Resent[i])
          \/ Resent[i].retry_after /\ Resent[i].status \in RETRY_AFTER_STATUS_CODES
    /\ Len(Resent) <= DEFAULT_TOTAL_RETRIES
    /\ sends <= DEFAULT_TOTAL_RETRIES + 1
    /\ ~Interactive => Resent = << >> /\ sends <= 1

C11_Witness ==
    /\ Interactive
    /\ pc = "returned"
    /\ Len(tries) = DEFAULT_TOTAL_RETRIES + 1
    /\ tries[1].status = 413 /\ tries[1].retry_after
    /\ tries[2].status = 500
    /\ tries[3].status = 0
    /\ tries[5].status = 404

\* C12: the upload and the register call are never sent again after the
\* server answered them, whatever the status: only a request that got no
\* response is sent again, so the server processes at most one upload and one
\* registration per run.
C12_NoResendAfterAnswer ==
    (calls # << >> /\ calls[Len(calls)].step \in {"upload", "register"})
        => \A i \in 1..Len(Resent) : Resent[i].status = 0

\* the image-typed leaves of the scanned tree
ImageLeaves == {f \in drive : IsImage(f.mimeType)}

\* C13: however the listings are cut into pages and whichever page fetches fail
\* fewer than max_retries times in a row, a crawl that returns has collected each
\* image-typed leaf of the tree exactly once, and nothing else.
C13_EachLeafOnce ==
    scan = "returned" =>
        /\ Len(image_data) = Cardinality(ImageLeaves)
        /\ {image_data[k].image_link : k \in 1..Len(image_data)}
              = {ImageLink(f.id) : f \in ImageLeaves}

C13_Witness ==
    /\ scan = "returned"
    /\ retried
    /\ Len(image_data) = 3
    /\ Cardinality({f \in drive : f.mimeType = FOLDER}) = 2
    /\ \E f \in drive : ~IsImage(f.mimeType) /\ f.mimeType # FOLDER /\ f.parent = Root

\* C14: once a listing page of any folder has failed on all of its attempts the
\* crawl is over with an exception: every frame is unwound, no record list
\* reaches build_drive_dataframe and no table is built; and the crawl raises for
\* no other reason.
C14_PageFailureIsFatal ==
    /\ exhausted =>
          /\ scan = "raised"
          /\ stack = << >>
          /\ image_data = NoData
          /\ drive_df = NoTable
    /\ scan = "raised" => exhausted

C14_Witness ==
    /\ exhausted
    /\ scan = "raised"
    /\ Len(results) = 2
    /\ Cardinality(ImageLeaves) = 3

\* the item of the tree with this id
ItemOf(id) == CHOOSE f \in drive : f.id = id

\* the names of the folders from the scanned folder down to the item, and the item's
RECURSIVE PathTo(_)
PathTo(id) ==
    IF id = Root THEN << >>
    ELSE PathTo(ItemOf(id).parent) \o << ItemOf(id).name >>

\* how deep the item lies under the scanned folder
RECURSIVE Depth(_)
Depth(id) == IF id = Root THEN 0 ELSE 1 + Depth(ItemOf(id).parent)

\* C15: every Leaf record's path is the names of its ancestor folders below the
\* scan root, in order, followed by its own name; so the path is as long as the
\* Leaf is deep and ends in the Leaf's name.
C15_PathIsAncestry ==
    \A k \in 1..Len(results) :
        \E f \in drive :
            /\ results[k].image_link = ImageLink(f.id)
            /\ results[k].image_name = f.name
            /\ results[k].full_path = PathTo(f.id)
            /\ Len(results[k].full_path) = Depth(f.id)
            /\ results[k].full_path[Len(results[k].full_path)] = f.name

C15_Witness ==
    /\ scan = "returned"
    /\ \E k \in 1..Len(image_data) : image_data[k].full_path = << "a", "b", "x.png" >>
    /\ \E k \in 1..Len(image_data) : image_data[k].full_path = << "x.png" >>

\* the names a level column can have
LevelCols == {LevelCol(i) : i \in 0..4}

\* the longest path of the crawl result
Deepest == MaxLen({image_data[k].full_path : k \in 1..Len(image_data)})

\* C16: the table of a non-empty crawl result has the columns level_0 ..
\* level_{D-1}, D the longest path, and no other level column; every record has
\* in level_i the i-th element of its path, or the empty string where its path
\* is shorter - always a value.
C16_LevelColumns ==
    (scan = "returned" /\ image_data # << >>) =>
        /\ {drive_df.available_fields[j] : j \in 1..Len(drive_df.available_fields)}
              \cap LevelCols = {LevelCol(i) : i \in 0..(Deepest - 1)}
        /\ Len(drive_df.df) = Len(image_data)
        /\ \A k \in 1..Len(drive_df.df) :
              /\ DOMAIN drive_df.df[k] \cap LevelCols
                    = {LevelCol(i) : i \in 0..(Deepest - 1)}
              /\ \A i \in 0..(Deepest - 1) :
                    drive_df.df[k][LevelCol(i)] =
                        (IF i < Len(image_data[k].full_path)
                         THEN image_data[k].full_path[i + 1] ELSE "")

C16_Witness ==
    /\ scan = "returned"
    /\ Deepest = 3
    /\ \E k \in 1..Len(drive_df.df) :
          /\ drive_df.df[k]["level_0"] = "x.png"
          /\ drive_df.df[k]["level_1"] = ""
          /\ drive_df.df[k]["level_2"] = ""
    /\ \E k \in 1..Len(drive_df.df) : drive_df.df[k]["level_2"] = "x.png"

\* the document was turned into rows
Built == parsed /\ ~df_json.raised

\* the work items of the document, in list order
Items == Get(data, << "workitems" >>, List(<< >>)).elems

\* Image_<n>: the indexed-image pattern
IndexedImage(ik) ==
    /\ Len(ik) >= 2
    /\ ik[1] = "Image_"
    /\ \A i \in 2..Len(ik) : ik[i] \in {"0", "1", "2", "3", "4", "5", "6", "7", "8", "9"}

\* the mapping, or a mapping below it, has a key the image rule may apply to
RECURSIVE HasImageKeys(_)
HasImageKeys(d) ==
    \E i \in 1..Len(d.items) :
        \/ IndexedImage(d.items[i].k)
        \/ Fullmatch(d.items[i].k)
        \/ IsDict(d.items[i].v) /\ HasImageKeys(d.items[i].v)

\* the leaves below a mapping, each with the keys that lead to it
RECURSIVE Leaves(_, _)
Leaves(d, path) ==
    UNION { IF IsDict(d.items[i].v)
            THEN Leaves(d.items[i].v, Append(path, d.items[i].k))
            ELSE {[path |-> Append(path, d.items[i].k), v |-> d.items[i].v]} :
            i \in 1..Len(d.items) }

\* the keys of a path joined by the separator
RECURSIVE JoinKeys(_)
JoinKeys(path) ==
    IF Len(path) = 1 THEN path[1] ELSE path[1] \o Sep \o JoinKeys(Tail(path))

\* C17: for a work item without indexed-image keys the keys of its record (the
\* file-metadata keys aside) are exactly the leaf paths of the work item, each
\* joined with "-" after "workitems", each holding the value of its leaf.
C17_LeafPathsExact ==
    Built =>
        \A n \in 1..Len(Items) :
            ~HasImageKeys(Items[n]) =>
                /\ {key \in DOMAIN df_json.rows[n] : key[1] = "workitems"}
                      = {WI(JoinKeys(l.path)) : l \in Leaves(Items[n], << >>)}
                /\ \A l \in Leaves(Items[n], << >>) :
                      df_json.rows[n][WI(JoinKeys(l.path))] = l.v

\* the inputData mapping of a work item
InputData(wi) == Get(wi, << "inputData" >>, Dict(<< >>))

\* <n> of Image_<n>
Index(ik) ==
    CASE ik[2] = "1" -> 1
      [] ik[2] = "2" -> 2
      [] OTHER       -> 0

\* the values of the Image_<n> children, by ascending n
RECURSIVE ByIndex(_)
ByIndex(S) ==
    IF S = {} THEN << >>
    ELSE LET m == CHOOSE x \in S : \A y \in S : Index(x.k) <= Index(y.k)
         IN  << m.v.v >> \o ByIndex(S \ {m})

ImageKey == WI(<< "inputData" >>) \o Sep \o << "Image" >>

\* C18: when inputData has Image_<n> keys, the record holds their values joined
\* with ", " in ascending order of n under workitems-inputData-Image, and holds
\* no key of its own for any Image_<n>.
C18_ImagesCollated ==
    Built =>
        \A n \in 1..Len(Items) :
            LET imgs == {c \in {InputData(Items[n]).items[i] :
                                    i \in 1..Len(InputData(Items[n]).items)} :
                            IndexedImage(c.k)}
            IN  imgs # {} =>
                    /\ ImageKey \in DOMAIN df_json.rows[n]
                    /\ df_json.rows[n][ImageKey] =
                          [t |-> "str", sep |-> ", ", parts |-> ByIndex(imgs)]
                    /\ \A c \in imgs :
                          WI(<< "inputData" >>) \o Sep \o c.k \notin DOMAIN df_json.rows[n]

\* C19: a child of inputData that is no indexed image is flattened as under any
\* other parent: a mapping child gives workitems-inputData-<child>-<path> for
\* each of its leaves, any other child gives workitems-inputData-<child>.
C19_InputChildrenFlattened ==
    Built =>
        \A n \in 1..Len(Items) :
            \A i \in 1..Len(InputData(Items[n]).items) :
                LET c == InputData(Items[n]).items[i]
                    under == WI(<< "inputData" >>) \o Sep \o c.k
                    row == df_json.rows[n]
                IN  (~IndexedImage(c.k) /\ ~Fullmatch(c.k)) =>
                        IF IsDict(c.v)
                        THEN \A l \in Leaves(c.v, << >>) :
                                /\ under \o Sep \o JoinKeys(l.path) \in DOMAIN row
                                /\ row[under \o Sep \o JoinKeys(l.path)] = l.v
                        ELSE under \in DOMAIN row /\ row[under] = c.v

\* C20: no value of any record built from a document is a mapping.
C20_NoMappingValues ==
    Built =>
        \A n \in 1..Len(df_json.rows) :
            \A key \in DOMAIN df_json.rows[n] : ~IsDict(df_json.rows[n][key])

\* the entries of the file metadata as they are merged into the records
MetaEntries == FileMetaFlat(data)

\* C21: the records are one per item of the workitems list, in list order; each
\* holds every file-metadata entry, and where an item key equals a
\* file-metadata key the record holds the item's value.
C21_RecordAssembly ==
    Built =>
        /\ Len(df_json.rows) = Len(Items)
        /\ \A n \in 1..Len(Items) :
              LET row == df_json.rows[n]
                  own == WorkItemRow(Items[n])
              IN  /\ DOMAIN row = DOMAIN own \cup DOMAIN MetaEntries
                  /\ \A key \in DOMAIN own : row[key] = own[key]
                  /\ \A key \in DOMAIN MetaEntries \ DOMAIN own :
                        row[key] = MetaEntries[key]

C21_Witness ==
    /\ Built
    /\ Len(df_json.rows) = 2
    /\ MetaEntries # EmptyRow
    /\ df_json.rows[1] # df_json.rows[2]
    /\ WI(<< "workItemId" >>) \in DOMAIN df_json.rows[2]
    /\ \A n \in 1..2 : \A key \in DOMAIN MetaEntries : df_json.rows[n][key] = MetaEntries[key]

\* the frames that exist before and after a step
Kept == DOMAIN stack \cap DOMAIN stack'

\* C22: a folder's page token changes only when a page has been fetched and
\* processed, and then to the token that page's response carried; a fetch that
\* fails is tried again with the token it had, and a response alone moves no token.
C22_TokenAdvancesOnSuccess ==
    [][ \A d \in Kept :
          LET a == stack[d]
              b == stack'[d]
          IN  /\ a.stage = "fetch" => b.page_token = a.page_token
              /\ b.page_token # a.page_token =>
                    /\ a.stage = "items"
                    /\ a.files = << >>
                    /\ b.stage = "fetch"
                    /\ a.nextPageToken # NoToken
                    /\ b.page_token = a.nextPageToken
              /\ b.nextPageToken # a.nextPageToken =>
                    /\ a.stage = "fetch"
                    /\ b.stage = "items"
                    /\ d = Len(stack)
              /\ a.stage = "items" /\ b.stage = "fetch" =>
                    b.page_token = a.nextPageToken
      ]_vars

C22_Witness ==
    /\ scan = "crawling"
    /\ Len(stack) = 2
    /\ Top.stage = "fetch"
    /\ Top.page_token # NoToken
    /\ Top.attempt = 2

\* the waits of a page that has failed n times
Waits(n) == [k \in 1..n |-> Pow(backoff, k)]

\* a fetch that is answered with a page
Fetched ==
    /\ scan' = "crawling"
    /\ Len(stack') = Len(stack)
    /\ Top'.stage = "items"

\* C23: a page is tried at most max_retries times; after its n-th failure,
\* n < max_retries, the crawl sleeps backoff ** n and tries again; its
\* max_retries-th failure raises; a page that arrives is not fetched again.
C23_BoundedBackoff ==
    [][ /\ scan = "crawling" /\ Top.stage = "fetch" =>
            /\ Top.attempt < max_retries
            /\ Top.slept = Waits(Top.attempt)
            /\ \/ Fetched /\ Top'.attempt = Top.attempt /\ Top'.slept = Top.slept
               \/ /\ Top.attempt + 1 = max_retries
                  /\ scan' = "raised"
                  /\ exhausted'
               \/ /\ Top.attempt + 1 < max_retries
                  /\ scan' = "crawling"
                  /\ Len(stack') = Len(stack)
                  /\ Top'.stage = "fetch"
                  /\ Top'.attempt = Top.attempt + 1
                  /\ Top'.slept = Append(Top.slept, Pow(backoff, Top.attempt + 1))
        /\ \A d \in Kept :
              stack[d].stage = "items" /\ stack'[d].stage = "fetch" =>
                  /\ stack'[d].page_token > stack[d].page_token
                  /\ stack'[d].attempt = 0
                  /\ stack'[d].slept = << >>
      ]_vars

C23_Witness ==
    /\ scan = "crawling"
    /\ Top.stage = "items"
    /\ Top.files # << >>
    /\ Top.attempt = 4
    /\ Top.slept = << [num |-> 3, den |-> 2], [num |-> 9, den |-> 4],
                      [num |-> 27, den |-> 8], [num |-> 81, den |-> 16] >>

\* where the folder stands in the listing it is an entry of
Position(id) ==
    LET L == Listing(ItemOf(id).parent)
    IN  CHOOSE k \in 1..Len(L) : L[k].id = id

\* the end of the page a frame is working on
PageStop(fr) ==
    IF fr.nextPageToken = NoToken THEN Len(Listing(fr.parent_id)) ELSE fr.nextPageToken

\* C24 as stated: while a sub-folder is being listed, the folder that holds it
\* has no entry left to process and no page left to fetch.
C24_Original ==
    scan = "crawling" =>
        \A d \in 1..(Len(stack) - 1) :
            /\ stack[d].files = << >>
            /\ stack[d].nextPageToken = NoToken

\* C24: the crawl is depth first. A sub-folder is listed as soon as its entry is
\* reached: the folder that holds it has fetched the page with that entry, has
\* every later entry of the page still to process and every later page still to
\* fetch, and issues no request until the sub-folder's listing is over.
C24_DepthFirst ==
    scan = "crawling" =>
        \A d \in 1..(Len(stack) - 1) :
            LET p == stack[d]
                c == stack[d + 1]
                L == Listing(p.parent_id)
            IN  /\ p.stage = "items"
                /\ ItemOf(c.parent_id).parent = p.parent_id
                /\ Position(c.parent_id) > p.page_token
                /\ Position(c.parent_id) <= PageStop(p)
                /\ p.files = SubSeq(L, Position(c.parent_id) + 1, PageStop(p))

C24_Witness ==
    /\ scan = "crawling"
    /\ Len(stack) = 3
    /\ Top.stage = "fetch"
    /\ stack[1].files # << >>
    /\ stack[1].nextPageToken # NoToken
    /\ stack[2].nextPageToken # NoToken

\* a run of upload_pipeline is under way
InRun == Interactive /\ pc \in {"upload", "register", "import"}

\* what upload_pipeline has returned once a run is over
Outcome ==
    Interactive /\ RunOver =>
        /\ ret # NoRet
        /\ ret.ok <=> RunSucceeded
        /\ ret.ok => ret = SuccessRet(batch_id)
        /\ ~ret.ok =>
              /\ LastCall.state = "raised"
              /\ \A k \in 1..(Len(calls) - 1) : calls[k].state = "returned"

ItemKeys(row) == {key \in DOMAIN row : key[1] = "workitems"}

\* C26: no leaf is lost through a key collision: a work item without
\* indexed-image keys yields as many record entries as it has leaves, keys that
\* hold the separator and leaves of different children of inputData included.
C26_NoKeyCollision ==
    Built =>
        \A n \in 1..Len(Items) :
            ~HasImageKeys(Items[n]) =>
                Cardinality(ItemKeys(df_json.rows[n]))
                    = Cardinality(Leaves(Items[n], << >>))

====
